---------------------------- MODULE Spec2Model ----------------------------
(***************************************************************************)
(* Model of material/grad_jit_example.ipynb: the scan-based tridiagonal    *)
(* solver tridiag_solve, the scalar workload scal_fun built on it, and the *)
(* timing benchmark cell.                                                  *)
(*                                                                         *)
(* Numbers are exact rationals extended with the IEEE-754 special values   *)
(* the notebook's float arithmetic produces on a division by zero.  A      *)
(* number is a pair <<n, d>>:                                              *)
(*     d > 0, n # 0, gcd(|n|, d) = 1   the finite non-zero rational n/d    *)
(*     <<0, 1>>, <<0, -1>>             +0 and -0                           *)
(*     <<1, 0>>, <<-1, 0>>             +Inf and -Inf                       *)
(*     <<0, 0>>                        NaN                                 *)
(* Rounding is not modelled: finite results are exact.                     *)
(***************************************************************************)
EXTENDS Integers, Sequences, FiniteSets, TLC

VARIABLES
    pc,        \* "idle": arguments bound, call not made; "done": call returned or raised
    fn,        \* which function the call is of: "tridiag_solve" or "scal_fun"
    a, b, c, f,\* the four arguments of tridiag_solve (as scal_fun built them, for scal_fun)
    params,    \* the argument of scal_fun
    f_fwd,     \* tridiag_solve's local f after line 41: forward-pass right-hand sides
    q_fwd,     \* tridiag_solve's local q after line 42: forward-pass multipliers
    x,         \* the sequence tridiag_solve last returned
    ret,       \* the scalar scal_fun last returned
    outcome,   \* "none", "value", or the exception the call raised
    ref,       \* an earlier completed call [fn, args, result], or the empty record
    bpc,       \* benchmark cell: position in the cell ("off": not running)
    cfg,       \* benchmark cell: section being run, 1 no jit, 2 grad(jit), 3 jit(grad)
    iter,      \* benchmark cell: items the for loop has taken from range(n_trials)
    i_trial,   \* benchmark cell: loop variable
    key,       \* benchmark cell: number of jax.random.split calls made on key
    clock,     \* wall clock read by tt()
    t,         \* benchmark cell: variable t
    times,     \* benchmark cell: variable times
    printed,   \* benchmark cell: the lines printed, as <<section, times>>
    cache,     \* sections with a compiled executable in JAX's caches
    spent,     \* per section, the wall time that passed inside its timed calls
    log        \* jax.clear_caches() and gradient calls made so far, in order

vars == <<pc, fn, a, b, c, f, params, f_fwd, q_fwd, x, ret, outcome, ref,
          bpc, cfg, iter, i_trial, key, clock, t, times, printed, cache,
          spent, log>>

callVars == <<pc, fn, a, b, c, f, params, f_fwd, q_fwd, x, ret, outcome, ref>>
benchVars == <<bpc, cfg, iter, i_trial, key, clock, t, times, printed, cache,
               spent, log>>

----------------------------------------------------------------------------
(* Extended rational arithmetic.                                           *)

Abs(k) == IF k < 0 THEN -k ELSE k

Sgn(k) == IF k < 0 THEN -1 ELSE IF k > 0 THEN 1 ELSE 0

RECURSIVE GCD(_, _)
GCD(m, n) == IF n = 0 THEN m ELSE GCD(n, m % n)

NaN == <<0, 0>>
Inf(s) == <<s, 0>>
Zero(s) == <<0, s>>

IsNaN(v) == v[1] = 0 /\ v[2] = 0
IsInf(v) == v[1] # 0 /\ v[2] = 0
IsZero(v) == v[1] = 0 /\ v[2] # 0
IsFinite(v) == v[2] # 0

\* The sign bit of a number that is not NaN: 1 or -1.
SignOf(v) == IF v[1] # 0 THEN Sgn(v[1]) ELSE Sgn(v[2])

\* The finite non-zero rational n/d (d # 0) in lowest terms.
Frac(n, d) ==
    LET g == GCD(Abs(n), Abs(d))
    IN  <<(Sgn(d) * n) \div g, Abs(d) \div g>>

\* A Python int or float literal with an integral value.
R(k) == IF k = 0 THEN Zero(1) ELSE <<k, 1>>

Half == <<1, 2>>

Neg(v) == IF v[1] = 0 THEN <<0, -v[2]>> ELSE <<-v[1], v[2]>>

Mul(v, w) ==
    IF IsNaN(v) \/ IsNaN(w) THEN NaN
    ELSE IF (IsInf(v) /\ IsZero(w)) \/ (IsZero(v) /\ IsInf(w)) THEN NaN
    ELSE IF IsInf(v) \/ IsInf(w) THEN Inf(SignOf(v) * SignOf(w))
    ELSE IF IsZero(v) \/ IsZero(w) THEN Zero(SignOf(v) * SignOf(w))
    ELSE Frac(v[1] * w[1], v[2] * w[2])

Add(v, w) ==
    IF IsNaN(v) \/ IsNaN(w) THEN NaN
    ELSE IF IsInf(v) /\ IsInf(w) THEN (IF v = w THEN v ELSE NaN)
    ELSE IF IsInf(v) THEN v
    ELSE IF IsInf(w) THEN w
    ELSE IF IsZero(v) /\ IsZero(w)
         THEN (IF SignOf(v) = -1 /\ SignOf(w) = -1 THEN Zero(-1) ELSE Zero(1))
    ELSE IF IsZero(v) THEN w
    ELSE IF IsZero(w) THEN v
    ELSE LET g == GCD(v[2], w[2])
             n == v[1] * (w[2] \div g) + w[1] * (v[2] \div g)
         IN  IF n = 0 THEN Zero(1) ELSE Frac(n, v[2] * (w[2] \div g))

Sub(v, w) == Add(v, Neg(w))

Div(v, w) ==
    IF IsNaN(v) \/ IsNaN(w) THEN NaN
    ELSE IF (IsInf(v) /\ IsInf(w)) \/ (IsZero(v) /\ IsZero(w)) THEN NaN
    ELSE IF IsInf(v) \/ IsZero(w) THEN Inf(SignOf(v) * SignOf(w))
    ELSE IF IsInf(w) \/ IsZero(v) THEN Zero(SignOf(v) * SignOf(w))
    ELSE Frac(v[1] * w[2], v[2] * w[1])

\* Python's == on floats: NaN equals nothing, +0 equals -0.
NumEq(v, w) ==
    /\ ~IsNaN(v) /\ ~IsNaN(w)
    /\ \/ v = w
       \/ IsZero(v) /\ IsZero(w)

----------------------------------------------------------------------------
(* Array helpers.                                                          *)

\* s[::-1]
RECURSIVE Reverse(_)
Reverse(s) == IF s = <<>> THEN <<>> ELSE Reverse(Tail(s)) \o <<Head(s)>>

\* jnp.stack(rows)[:, 1:].T : one row per index 1.. of the stacked arrays
\* (0-based), each row holding that index's entry of every stacked array.
StackTailT(rows) ==
    [i \in 1..(Len(rows[1]) - 1) |-> [k \in 1..Len(rows) |-> rows[k][i + 1]]]

----------------------------------------------------------------------------
(* tridiag_solve.                                                          *)

\* forward_scan_scal with the sign of q_i lost.
forward_scan_scal_unsigned(carry, row) ==
    LET cff == Div(R(1), Add(row[2], Mul(row[1], carry[2])))
    IN  <<Mul(cff, Sub(row[4], Mul(row[1], carry[1]))), Mul(cff, row[3])>>

\* forward_scan_scal eliminating with the diagonal alone (a*q_im1 dropped).
forward_scan_scal_nofill(carry, row) ==
    LET cff == Div(R(1), row[2])
    IN  <<Mul(cff, Sub(row[4], Mul(row[1], carry[1]))), Mul(Neg(cff), row[3])>>

forward_scan_scal(carry, row) ==
    LET f_im1 == carry[1]
        q_im1 == carry[2]
        cff == Div(R(1), Add(row[2], Mul(row[1], q_im1)))
        f_i == Mul(cff, Sub(row[4], Mul(row[1], f_im1)))
        q_i == Mul(Neg(cff), row[3])
    IN  <<f_i, q_i>>

\* jax.lax.scan(forward_scan_scal, init, xs): the stacked per-step outputs.
RECURSIVE forward_scan(_, _)
forward_scan(carry, xs) ==
    IF xs = <<>> THEN <<>>
    ELSE LET out == forward_scan_scal(carry, Head(xs))
         IN  <<out>> \o forward_scan(out, Tail(xs))

forward_init(aa, bb, cc, ff) == <<Div(ff[1], bb[1]), Div(Neg(cc[1]), bb[1])>>

forward_xs(aa, bb, cc, ff) == StackTailT(<<aa, bb, cc, ff>>)

\* Lines 38-42: the pair <<f, q>> of forward-pass sequences.
forward_pass(aa, bb, cc, ff) ==
    LET init == forward_init(aa, bb, cc, ff)
        ys == forward_scan(init, forward_xs(aa, bb, cc, ff))
    IN  << <<init[1]>> \o [i \in 1..Len(ys) |-> ys[i][1]],
           <<init[2]>> \o [i \in 1..Len(ys) |-> ys[i][2]] >>

reverse_scan_scal(carry, row) ==
    LET q_rev == row[1]
        f_rev == row[2]
    IN  Add(f_rev, Mul(q_rev, carry))

\* jax.lax.scan(reverse_scan_scal, init, xs): the stacked per-step outputs.
RECURSIVE reverse_scan(_, _)
reverse_scan(carry, xs) ==
    IF xs = <<>> THEN <<>>
    ELSE LET out == reverse_scan_scal(carry, Head(xs))
         IN  <<out>> \o reverse_scan(out, Tail(xs))

\* reverse_xs dropping the last reversed row ([:, :-1]) instead of the first.
reverse_xs_wrong_end(fs, qs) ==
    LET qr == Reverse(qs)
        fr == Reverse(fs)
    IN  [i \in 1..(Len(fs) - 1) |-> <<qr[i], fr[i]>>]

reverse_xs(fs, qs) == StackTailT(<<Reverse(qs), Reverse(fs)>>)

\* reverse_pass answering from the previous call's result when the shapes agree.
reverse_pass_cached(fs, qs) ==
    IF Len(x) = Len(fs) THEN x
    ELSE LET init == fs[Len(fs)]
         IN  Reverse(<<init>> \o reverse_scan(init, reverse_xs(fs, qs)))

\* reverse_pass without the final x[::-1].
reverse_pass_unreversed(fs, qs) ==
    LET init == fs[Len(fs)]
    IN  <<init>> \o reverse_scan(init, reverse_xs(fs, qs))

\* Lines 48-53: the solution from the forward-pass sequences.
reverse_pass(fs, qs) ==
    LET init == fs[Len(fs)]
        xr == reverse_scan(init, reverse_xs(fs, qs))
    IN  Reverse(<<init>> \o xr)

\* What a call of tridiag_solve ends in: "value", or the exception raised.
\* f[0] and b[0] on an empty array raise IndexError (line 38) before
\* jnp.stack rejects arrays of different shapes with ValueError (line 39).
solve_outcome(aa, bb, cc, ff) ==
    IF Len(ff) = 0 \/ Len(bb) = 0 \/ Len(cc) = 0 THEN "IndexError"
    ELSE IF ~(Len(aa) = Len(bb) /\ Len(bb) = Len(cc) /\ Len(cc) = Len(ff))
         THEN "ValueError"
    ELSE "value"

tridiag_solve(aa, bb, cc, ff) ==
    LET fq == forward_pass(aa, bb, cc, ff)
    IN  reverse_pass(fq[1], fq[2])

----------------------------------------------------------------------------
(* scal_fun.                                                               *)

\* The problem size scal_fun reads from the notebook's global nz (100 in
\* the notebook, line 105; reduced here).
nz == 3

\* jnp.tile(s, k) for a one-dimensional s: k copies of s, end to end.
RECURSIVE Tile(_, _)
Tile(s, k) == IF k <= 0 THEN <<>> ELSE s \o Tile(s, k - 1)

\* s[:k]
Take(s, k) == SubSeq(s, 1, IF k < Len(s) THEN k ELSE Len(s))

\* jnp.roll with the shift negated: elements move towards the front.
RollLeft(s, shift) ==
    LET d == Len(s)
    IN  [i \in 1..d |-> s[((i - 1 + shift) % d) + 1]]

\* jnp.roll(s, shift) for a non-empty one-dimensional s: the element at
\* index i moves to index (i + shift) mod d.
Roll(s, shift) ==
    LET d == Len(s)
        k == shift % d
    IN  SubSeq(s, d - k + 1, d) \o SubSeq(s, 1, d - k)

\* array + scalar
Plus(s, v) == [i \in 1..Len(s) |-> Add(s[i], v)]

\* nz//params.shape[0]+1 (line 107); the caller excludes params.shape[0] = 0.
n_tiles(p) == (nz \div Len(p)) + 1

\* Lines 108-114: the four sequences scal_fun hands to tridiag_solve.
scal_a(p) == Plus(Take(Tile(p, n_tiles(p)), nz), Half)
scal_b(p) == Plus(Take(Tile(Roll(p, 1), n_tiles(p)), nz), R(2))
scal_c(p) == Plus(Take(Tile(Roll(p, 2), n_tiles(p)), nz), Half)
scal_f(p) == Take(Tile(Roll(p, 3), n_tiles(p)), nz)

RECURSIVE SumSq(_)
SumSq(s) == IF s = <<>> THEN R(0) ELSE Add(Mul(Head(s), Head(s)), SumSq(Tail(s)))

\* jnp.linalg.norm(x): the non-negative square root of the sum of squares,
\* kept as its radicand.
linalg_norm(s) == [sqrt |-> SumSq(s)]

\* What a call of scal_fun ends in: nz // 0 raises ZeroDivisionError
\* (line 107); every other length goes through to the solver.
scal_outcome(p) ==
    IF Len(p) = 0 THEN "ZeroDivisionError"
    ELSE solve_outcome(scal_a(p), scal_b(p), scal_c(p), scal_f(p))

----------------------------------------------------------------------------
(* Calls of tridiag_solve on arguments of one length.                      *)

MaxN == 3

AVals == {R(0), R(1)}
BVals == {R(0), R(1), R(2)}
CVals == {R(0), R(1)}
\* Right-hand sides of length n: all ones, the odd numbers 1, 3, 5, ...,
\* and the last unit vector.
FSeqs(n) ==
    { [i \in 1..n |-> R(1)],
      [i \in 1..n |-> R(2 * i - 1)],
      [i \in 1..n |-> IF i = n THEN R(1) ELSE R(0)] }

NoRef == [fn |-> "none"]

NotCalled ==
    /\ pc = "idle"
    /\ f_fwd = <<>> /\ q_fwd = <<>> /\ x = <<>> /\ ret = <<>>
    /\ outcome = "none"
    /\ ref = NoRef

BenchOff ==
    /\ bpc = "off" /\ cfg = 0 /\ iter = 0 /\ i_trial = 0 /\ key = 0
    /\ clock = 0 /\ t = 0 /\ times = 0 /\ printed = <<>> /\ cache = {}
    /\ spent = <<0, 0, 0>> /\ log = <<>>

Init ==
    /\ fn = "tridiag_solve"
    /\ \E n \in 1..MaxN :
          /\ a \in [1..n -> AVals]
          /\ b \in [1..n -> BVals]
          /\ c \in [1..n -> CVals]
          /\ f \in FSeqs(n)
    /\ params = <<>>
    /\ NotCalled
    /\ BenchOff

\* One call tridiag_solve(a, b, c, f), from binding the arguments to the
\* return or the exception.
TridiagSolveCall ==
    /\ pc = "idle"
    /\ fn = "tridiag_solve"
    /\ pc' = "done"
    /\ outcome' = solve_outcome(a, b, c, f)
    /\ IF outcome' = "value"
       THEN LET fq == forward_pass(a, b, c, f)
            IN  /\ f_fwd' = fq[1]
                /\ q_fwd' = fq[2]
                /\ x' = reverse_pass(fq[1], fq[2])
       ELSE UNCHANGED <<f_fwd, q_fwd, x>>
    /\ UNCHANGED <<fn, a, b, c, f, params, ret, ref>>
    /\ UNCHANGED benchVars

Next == TridiagSolveCall

Spec == Init /\ [][Next]_vars

----------------------------------------------------------------------------
(* Properties of tridiag_solve.                                            *)

Returned == pc = "done" /\ fn = "tridiag_solve" /\ outcome = "value"

\* The pivots of the elimination: b[0], then b[i] + a[i]*q[i-1].
Pivot(i) == IF i = 1 THEN b[1] ELSE Add(b[i], Mul(a[i], q_fwd[i - 1]))

NoZeroPivot == \A i \in 1..Len(b) : ~IsZero(Pivot(i))

\* Row i of M x, with the out-of-range neighbours taken as 0.
RowTimesX(i) ==
    LET n == Len(x)
        lo == IF i = 1 THEN R(0) ELSE Mul(a[i], x[i - 1])
        hi == IF i = n THEN R(0) ELSE Mul(c[i], x[i + 1])
    IN  Add(Add(lo, Mul(b[i], x[i])), hi)

SolvesSystem == \A i \in 1..Len(x) : NumEq(RowTimesX(i), f[i])

\* C1: with no zero pivot, tridiag_solve returns an x of length n that
\* satisfies every row of the system exactly; a system of one row gives
\* x = [f/b], and a=[0,1], b=[2,2], c=[1,0], f=[1,3] gives [-1/3, 5/3].
C1_SolvesWhenNoZeroPivot ==
    (Returned /\ NoZeroPivot) =>
        /\ Len(x) = Len(b)
        /\ \A i \in 1..Len(x) : IsFinite(x[i])
        /\ SolvesSystem
        /\ (Len(b) = 1 => NumEq(Mul(b[1], x[1]), f[1]))
        /\ (/\ a = <<R(0), R(1)>> /\ b = <<R(2), R(2)>>
            /\ c = <<R(1), R(0)>> /\ f = <<R(1), R(3)>>)
              => x = << <<-1, 3>>, <<5, 3>> >>

C1_Witness ==
    /\ Returned /\ NoZeroPivot
    /\ Len(b) = MaxN
    /\ \A i \in 1..Len(b) : ~IsZero(a[i]) /\ ~IsZero(c[i])
    /\ \E i \in 1..Len(x) : x[i][2] > 1

\* The determinant of the leading k x k block of the tridiagonal matrix,
\* by the three-term recurrence.
RECURSIVE Det(_)
Det(k) ==
    IF k = 0 THEN R(1)
    ELSE IF k = 1 THEN b[1]
    ELSE Sub(Mul(b[k], Det(k - 1)), Mul(Mul(a[k], c[k - 1]), Det(k - 2)))

NonSingular == ~IsZero(Det(Len(b)))

\* C2 as stated: non-singularity of the matrix alone makes the returned x
\* satisfy every row of the system.
C2_NonSingularSuffices == (Returned /\ NonSingular) => SolvesSystem

\* C2 as amended: when no pivot met during elimination is zero, the matrix
\* is non-singular and the returned x satisfies every row of the system.
C2_NoZeroPivotSuffices ==
    (Returned /\ NoZeroPivot) => (NonSingular /\ SolvesSystem)

C2_Witness ==
    /\ Returned /\ NoZeroPivot
    /\ Len(b) = MaxN
    /\ \E i \in 2..Len(b) : IsZero(b[i])
    /\ \A i \in 2..Len(b) : ~IsZero(a[i])

ZeroPivotArises == \E i \in 1..Len(b) : IsZero(Pivot(i))

\* C4: a call in which a zero pivot arises ends in SingularSystemError and
\* returns no solution sequence.
C4_ZeroPivotRaises ==
    (pc = "done" /\ fn = "tridiag_solve" /\ ZeroPivotArises) =>
        (outcome = "SingularSystemError" /\ x = <<>>)

\* C8: in natural index order the returned x is x[n-1] = f_{n-1} and
\* x[i] = f_i + q_i * x[i+1] for i = n-2 down to 0, over the forward-pass
\* outputs (index 0 being the seed).
C8_BackSubstitution ==
    Returned =>
        LET n == Len(b)
        IN  /\ Len(x) = n /\ Len(f_fwd) = n /\ Len(q_fwd) = n
            /\ f_fwd[1] = Div(f[1], b[1])
            /\ q_fwd[1] = Div(Neg(c[1]), b[1])
            /\ x[n] = f_fwd[n]
            /\ \A i \in 1..(n - 1) :
                  x[i] = Add(f_fwd[i], Mul(q_fwd[i], x[i + 1]))

C8_Witness ==
    /\ Returned
    /\ Len(x) = MaxN
    /\ \A i \in 1..Len(x) : IsFinite(x[i]) /\ ~IsZero(q_fwd[i])
    /\ \E i \in 1..(Len(x) - 1) : x[i] # x[i + 1]
    /\ x[1] # f_fwd[1]

\* C9: the returned x is the x of every call that differs only in a[0]
\* and/or c[n-1].
C9_IgnoresCorners ==
    Returned =>
        \A v \in AVals, w \in CVals :
            tridiag_solve([a EXCEPT ![1] = v], b,
                          [c EXCEPT ![Len(c)] = w], f) = x

C9_Witness ==
    /\ Returned
    /\ Len(x) = MaxN
    /\ ~IsZero(a[1]) /\ ~IsZero(c[Len(c)])
    /\ \A i \in 1..Len(x) : IsFinite(x[i]) /\ ~IsZero(x[i])

----------------------------------------------------------------------------
(* Single calls of tridiag_solve and scal_fun on arguments of any shape.   *)

MaxLen == 2

ShapeVals == {R(1), R(2)}
PVals == {R(-1), R(0), Half, R(2)}

SeqsUpTo(S, n) == UNION {[1..k -> S] : k \in 0..n}

\* One call scal_fun(params), from binding the argument to the return or
\* the exception.
ScalFunCall ==
    /\ pc = "idle"
    /\ fn = "scal_fun"
    /\ pc' = "done"
    /\ outcome' = scal_outcome(params)
    /\ IF Len(params) # 0
       THEN /\ a' = scal_a(params)
            /\ b' = scal_b(params)
            /\ c' = scal_c(params)
            /\ f' = scal_f(params)
       ELSE UNCHANGED <<a, b, c, f>>
    /\ IF outcome' = "value"
       THEN LET fq == forward_pass(a', b', c', f')
            IN  /\ f_fwd' = fq[1]
                /\ q_fwd' = fq[2]
                /\ x' = reverse_pass(fq[1], fq[2])
                /\ ret' = linalg_norm(x')
       ELSE UNCHANGED <<f_fwd, q_fwd, x, ret>>
    /\ UNCHANGED <<fn, params, ref>>
    /\ UNCHANGED benchVars

InitShape ==
    /\ \/ /\ fn = "tridiag_solve"
          /\ a \in SeqsUpTo(ShapeVals, MaxLen)
          /\ b \in SeqsUpTo(ShapeVals, MaxLen)
          /\ c \in SeqsUpTo(ShapeVals, MaxLen)
          /\ f \in SeqsUpTo(ShapeVals, MaxLen)
          /\ params = <<>>
       \/ /\ fn = "scal_fun"
          /\ params \in SeqsUpTo(PVals, nz + 1)
          /\ a = <<>> /\ b = <<>> /\ c = <<>> /\ f = <<>>
    /\ NotCalled
    /\ BenchOff

NextShape == TridiagSolveCall \/ ScalFunCall

SpecShape == InitShape /\ [][NextShape]_vars

\* The exceptions the notebook's code can raise on arguments of the wrong
\* shape; the source defines no exception class of its own.
ShapeErrors == {"IndexError", "ValueError", "ZeroDivisionError"}

SolveShapeOk ==
    /\ Len(a) >= 1
    /\ Len(a) = Len(b) /\ Len(b) = Len(c) /\ Len(c) = Len(f)

\* C5: a call whose lengths violate the contract (a, b, c, f not all of one
\* length n >= 1; len(params) outside 1..nz) ends in a shape error and never
\* in a value.
C5_ShapeViolationRaises ==
    /\ (pc = "done" /\ fn = "tridiag_solve" /\ ~SolveShapeOk)
          => outcome \in ShapeErrors
    /\ (pc = "done" /\ fn = "scal_fun" /\ Len(params) \notin 1..nz)
          => outcome \in ShapeErrors

\* The assembled sequences, by index: rotation by 0, 1, 2, 3, cyclic
\* repetition, truncation to nz.
AssembledByIndex ==
    LET d == Len(params)
        P(j) == params[(j % d) + 1]
    IN  /\ Len(a) = nz /\ Len(b) = nz /\ Len(c) = nz /\ Len(f) = nz
        /\ \A i \in 0..(nz - 1) :
              /\ a[i + 1] = Add(P(i), Half)
              /\ b[i + 1] = Add(P(i - 1), R(2))
              /\ c[i + 1] = Add(P(i - 2), Half)
              /\ f[i + 1] = P(i - 3)

\* C10: for 1 <= len(params) <= nz, scal_fun hands tridiag_solve four
\* sequences of length nz with a[i] = params[i mod d] + 0.5,
\* b[i] = params[(i-1) mod d] + 2, c[i] = params[(i-2) mod d] + 0.5 and
\* f[i] = params[(i-3) mod d], and the call leaves params unchanged.
C10_Assembly ==
    /\ [](( pc = "done" /\ fn = "scal_fun" /\ Len(params) \in 1..nz)
            => (outcome = "value" /\ AssembledByIndex))
    /\ [][ScalFunCall => params' = params]_vars

C10_Witness ==
    /\ pc = "done" /\ fn = "scal_fun" /\ outcome = "value"
    /\ Len(params) = 2
    /\ params[1] # params[2]
    /\ Len(a) = nz

----------------------------------------------------------------------------
(* Sequences of calls.                                                     *)

SolveArgs ==
    { << <<R(1)>>, <<R(2)>>, <<R(1)>>, <<R(1)>> >>,
      << <<R(0)>>, <<R(0)>>, <<R(0)>>, <<R(1)>> >>,
      << <<R(0), R(1)>>, <<R(2), R(2)>>, <<R(1), R(0)>>, <<R(1), R(3)>> >>,
      << <<R(1), R(1)>>, <<R(1), R(1)>>, <<R(1), R(1)>>, <<R(1), R(1)>> >>,
      << <<R(1), R(1)>>, <<R(1), R(2)>>, <<R(1), R(1)>>, <<R(1), R(3)>> >> }

ScalArgs == SeqsUpTo({R(0), R(1)}, 2)

\* The arguments and the result of the call the state holds.
CallArgs == IF fn = "tridiag_solve" THEN <<a, b, c, f>> ELSE <<params>>

CallResult ==
    IF outcome # "value" THEN <<outcome>>
    ELSE IF fn = "tridiag_solve" THEN <<"value", x>>
    ELSE <<"value", ret>>

LastCall == [fn |-> fn, args |-> CallArgs, result |-> CallResult]

\* The caller binds the arguments of its next call; ref keeps one of the
\* completed calls for comparison.  What the previous call left in f_fwd,
\* q_fwd, x and ret stays until a call overwrites it.
NextCall ==
    /\ pc = "done"
    /\ pc' = "idle"
    /\ outcome' = "none"
    /\ ref' \in {ref, LastCall}
    /\ \/ /\ fn' = "tridiag_solve"
          /\ \E args \in SolveArgs :
                /\ a' = args[1] /\ b' = args[2] /\ c' = args[3] /\ f' = args[4]
          /\ UNCHANGED params
       \/ /\ fn' = "scal_fun"
          /\ params' \in ScalArgs
          /\ UNCHANGED <<a, b, c, f>>
    /\ UNCHANGED <<f_fwd, q_fwd, x, ret>>
    /\ UNCHANGED benchVars

InitCalls ==
    /\ \/ /\ fn = "tridiag_solve"
          /\ \E args \in SolveArgs :
                /\ a = args[1] /\ b = args[2] /\ c = args[3] /\ f = args[4]
          /\ params = <<>>
       \/ /\ fn = "scal_fun"
          /\ params \in ScalArgs
          /\ a = <<>> /\ b = <<>> /\ c = <<>> /\ f = <<>>
    /\ NotCalled
    /\ BenchOff

NextCalls == TridiagSolveCall \/ ScalFunCall \/ NextCall

SpecCalls == InitCalls /\ [][NextCalls]_vars

----------------------------------------------------------------------------
(* The time benchmark cell (lines 191-229).                                *)

\* Timed calls per section (100 in the notebook, line 191; reduced here).
n_trials == 2

\* The longest a call or a key split takes, in clock ticks.
MaxDt == 2

NSections == 3

InitBench ==
    /\ fn = "none"
    /\ a = <<>> /\ b = <<>> /\ c = <<>> /\ f = <<>> /\ params = <<>>
    /\ NotCalled
    /\ bpc = "clear" /\ cfg = 1 /\ iter = 0 /\ i_trial = 0 /\ key = 0
    /\ clock = 0 /\ t = 0 /\ times = 0 /\ printed = <<>> /\ cache = {}
    /\ spent = <<0, 0, 0>> /\ log = <<>>

\* jax.clear_caches() (lines 198, 208, 220)
ClearCaches ==
    /\ bpc = "clear"
    /\ cache' = {}
    /\ log' = Append(log, <<"clear_caches", cfg>>)
    /\ bpc' = "warmup"
    /\ UNCHANGED <<cfg, iter, i_trial, key, clock, t, times, printed, spent>>
    /\ UNCHANGED callVars

\* The section's gradient function on all_x[0, :] (lines 199, 209, 221)
WarmUp ==
    /\ bpc = "warmup"
    /\ \E dt \in 1..MaxDt : clock' = clock + dt
    /\ cache' = cache \cup {cfg}
    /\ log' = Append(log, <<"call", cfg, 0>>)
    /\ bpc' = "zero"
    /\ UNCHANGED <<cfg, iter, i_trial, key, t, times, printed, spent>>
    /\ UNCHANGED callVars

\* ZeroTimes with the reset of times left out.
ZeroTimesKept ==
    /\ bpc = "zero"
    /\ iter' = 0
    /\ bpc' = "loop"
    /\ UNCHANGED <<cfg, i_trial, key, clock, t, times, printed, cache, spent, log>>
    /\ UNCHANGED callVars

\* times = 0, and the for loop's iterator is made (lines 200-201, 210-211,
\* 222-223)
ZeroTimes ==
    /\ bpc = "zero"
    /\ times' = 0
    /\ iter' = 0
    /\ bpc' = "loop"
    /\ UNCHANGED <<cfg, i_trial, key, clock, t, printed, cache, spent, log>>
    /\ UNCHANGED callVars

\* for i_trial in range(n_trials): the next item, or the end of the loop
LoopHead ==
    /\ bpc = "loop"
    /\ IF iter < n_trials
       THEN /\ i_trial' = iter
            /\ iter' = iter + 1
            /\ bpc' = IF cfg = 1 THEN "start" ELSE "resample"
       ELSE /\ UNCHANGED <<i_trial, iter>>
            /\ bpc' = "print"
    /\ UNCHANGED <<cfg, key, clock, t, times, printed, cache, spent, log>>
    /\ UNCHANGED callVars

\* old_key, key = jax.random.split(key, 2); x = jax.random.uniform(...)
\* (lines 212-213, 224-225)
Resample ==
    /\ bpc = "resample"
    /\ key' = key + 1
    /\ \E dt \in 1..MaxDt : clock' = clock + dt
    /\ bpc' = "start"
    /\ UNCHANGED <<cfg, iter, i_trial, t, times, printed, cache, spent, log>>
    /\ UNCHANGED callVars

\* t = tt() (lines 202, 214, 226)
StartTimer ==
    /\ bpc = "start"
    /\ t' = clock
    /\ bpc' = "call"
    /\ UNCHANGED <<cfg, iter, i_trial, key, clock, times, printed, cache, spent, log>>
    /\ UNCHANGED callVars

\* The section's gradient function on all_x[i_trial+1, :], blocked until
\* ready (lines 203, 215, 227)
TimedCall ==
    /\ bpc = "call"
    /\ \E dt \in 1..MaxDt :
          /\ clock' = clock + dt
          /\ spent' = [spent EXCEPT ![cfg] = @ + dt]
    /\ cache' = cache \cup {cfg}
    /\ log' = Append(log, <<"call", cfg, i_trial + 1>>)
    /\ bpc' = "stop"
    /\ UNCHANGED <<cfg, iter, i_trial, key, t, times, printed>>
    /\ UNCHANGED callVars

\* times += tt()-t (lines 204, 216, 228)
StopTimer ==
    /\ bpc = "stop"
    /\ times' = times + (clock - t)
    /\ bpc' = "loop"
    /\ UNCHANGED <<cfg, iter, i_trial, key, clock, t, printed, cache, spent, log>>
    /\ UNCHANGED callVars

\* print(... times/n_trials ...) (lines 205, 217, 229), then the next
\* section or the end of the cell
PrintMean ==
    /\ bpc = "print"
    /\ printed' = Append(printed, <<cfg, times>>)
    /\ IF cfg < NSections
       THEN cfg' = cfg + 1 /\ bpc' = "clear"
       ELSE cfg' = cfg /\ bpc' = "end"
    /\ UNCHANGED <<iter, i_trial, key, clock, t, times, cache, spent, log>>
    /\ UNCHANGED callVars

NextBench ==
    \/ ClearCaches \/ WarmUp \/ ZeroTimes \/ LoopHead \/ Resample
    \/ StartTimer \/ TimedCall \/ StopTimer \/ PrintMean

SpecBench == InitBench /\ [][NextBench]_vars

\* The events of one section, in the order the claim gives: the cache
\* clear, the warm-up call on all_x[0], the timed calls on all_x[1..n_trials].
SectionLog(k) ==
    << <<"clear_caches", k>>, <<"call", k, 0>> >>
        \o [i \in 1..n_trials |-> <<"call", k, i>>]

RECURSIVE SectionsLog(_)
SectionsLog(k) == IF k = 0 THEN <<>> ELSE SectionsLog(k - 1) \o SectionLog(k)

IsPrefix(s, u) == Len(s) <= Len(u) /\ s = SubSeq(u, 1, Len(s))

\* C7: in each section the cache is cleared, then one warm-up call is made
\* on all_x[0], then the n_trials timed calls on all_x[1..n_trials], a
\* section starting only after the previous one's last timed call; and
\* times holds the time of the section's timed calls alone.
C7_BenchmarkOrder ==
    /\ bpc # "off" => IsPrefix(log, SectionsLog(NSections))
    /\ bpc \in {"loop", "resample", "start", "print"} => times = spent[cfg]
    /\ bpc = "call" => (times = spent[cfg] /\ t = clock)
    /\ bpc = "stop" => times + (clock - t) = spent[cfg]
    /\ bpc = "end" =>
          /\ log = SectionsLog(NSections)
          /\ printed = [k \in 1..NSections |-> <<k, spent[k]>>]

C7_Witness ==
    /\ bpc = "end"
    /\ Len(log) = NSections * (n_trials + 2)
    /\ key = 2 * n_trials
    /\ spent[1] < spent[2] /\ spent[2] < spent[3]
    /\ clock > spent[1] + spent[2] + spent[3] + NSections

=============================================================================
